---- MODULE Spec2Model ----
(***************************************************************************)
(* Model of Configuration::Parser (src/Parser.h): the line-oriented parser *)
(* of nested sections, its section tree and its exporter.                  *)
(*                                                                         *)
(* A string is a sequence of one-character strings.  A Section lives at an *)
(* address: the sequence of section names leading to it from the root      *)
(* (the root's address is <<>>).  A std::map node never moves, so the      *)
(* address stands for the pointer to the Section held by the map of its    *)
(* owner; mParent is a stored address, read back by the ancestor walk.     *)
(***************************************************************************)
EXTENDS Integers, Sequences, FiniteSets, TLC

(***************************************************************************)
(* Bounds of the model.                                                    *)
(***************************************************************************)
MaxLines == 4        \* lines the input stream delivers before it ends
MaxDepth == 3        \* deepest '[' run among the header lines of the input

(***************************************************************************)
(* std::string                                                             *)
(***************************************************************************)
\* std::string::npos: larger than every length and every index.
npos == 2147483647

\* s.substr(pos, n): the characters [pos, pos + min(n, size - pos)); pos is
\* 0-based.  A negative n is a size_t that wrapped around: it exceeds
\* size - pos, so the substring runs to the end.
Substr(s, pos, n) ==
    LET rest == Len(s) - pos
        cnt  == IF n < 0 \/ n > rest THEN rest ELSE n
    IN  SubSeq(s, pos + 1, pos + cnt)

RECURSIVE FindFrom(_, _, _)
FindFrom(s, ch, i) ==
    IF i >= Len(s) THEN npos
    ELSE IF s[i + 1] = ch THEN i
    ELSE FindFrom(s, ch, i + 1)

\* Faulty variant of Find: the last occurrence.
RECURSIVE RFindFrom(_, _, _)
RFindFrom(s, ch, i) ==
    IF i < 0 THEN npos
    ELSE IF s[i + 1] = ch THEN i
    ELSE RFindFrom(s, ch, i - 1)

FindLast(s, ch) == RFindFrom(s, ch, Len(s) - 1)

\* s.find(ch): 0-based index of the first ch, npos when there is none.
Find(s, ch) == FindFrom(s, ch, 0)

(***************************************************************************)
(* TrimString                                                              *)
(***************************************************************************)
\* char toTrim[] = " \t\r\n", searched with std::strchr, which also finds
\* the null character that ends the array ("NUL" here).
toTrim == {" ", "\t", "\r", "\n", "NUL"}

RECURSIVE TrimStart(_, _, _)
TrimStart(s, sp, ep) ==
    IF sp <= ep /\ s[sp + 1] \in toTrim THEN TrimStart(s, sp + 1, ep) ELSE sp

RECURSIVE TrimEnd(_, _)
TrimEnd(s, ep) ==
    IF ep >= 0 /\ s[ep + 1] \in toTrim THEN TrimEnd(s, ep - 1) ELSE ep

TrimString(xi_string) ==
    LET sp == TrimStart(xi_string, 0, Len(xi_string) - 1)
        ep == TrimEnd(xi_string, Len(xi_string) - 1)
    IN  Substr(xi_string, sp, ep - sp + 1)

(***************************************************************************)
(* ParseValue: cut the value at a comment character.  The loop tries '#'   *)
(* first and only looks for ';' when the text holds no '#'.                *)
(***************************************************************************)
ParseValue(xi_string) ==
    LET hash == Find(xi_string, "#")
        ep   == IF hash # npos THEN hash ELSE Find(xi_string, ";")
    IN  IF ep # npos THEN Substr(xi_string, 0, ep) ELSE xi_string

(***************************************************************************)
(* ParseLine: depth and name of a section header line.                     *)
(***************************************************************************)
RECURSIVE CountOpen(_, _)
CountOpen(line, d) ==
    IF d < Len(line) /\ line[d + 1] = "[" THEN CountOpen(line, d + 1) ELSE d

ParseLineDepth(line) == CountOpen(line, 0)

ParseLineName(line) ==
    LET d == ParseLineDepth(line)
    IN  Substr(line, d, Len(line) - 2 * d)

(***************************************************************************)
(* Section                                                                 *)
(***************************************************************************)
\* The null Section*: no address of a section (no section name is "nullptr").
nullptr == << <<"nullptr">> >>

RootAddr == << >>

\* Section(): no values, no sections, no parent, depth 0.  mValues is a
\* function from keys to values, mSections the set of names of the owned
\* sections (the section named n owned by the section at a lives at
\* Append(a, n)); the two lists hold map iterators, named by their keys.
DefaultSection ==
    [ mValues          |-> << >>,
      mSections        |-> {},
      mOrderedValues   |-> << >>,
      mOrderedSections |-> << >>,
      mParent          |-> nullptr,
      mDepth           |-> 0 ]

\* mSections[name] of the section at addr: the address of the element, and
\* the heap after std::map::operator[] default-constructed it when absent.
ChildAddr(addr, name) == Append(addr, name)

MapSubscript(heap, addr, name) ==
    IF name \in heap[addr].mSections
    THEN heap
    ELSE (ChildAddr(addr, name) :> DefaultSection)
         @@ [heap EXCEPT ![addr].mSections = @ \cup {name}]

(***************************************************************************)
(* Parser state as a record, so that the same line handler serves the      *)
(* stepwise parse and the parse of a whole stream.                         *)
(*   mRoot       the heap of sections, the root at RootAddr                *)
(*   frames      the active calls of ParseSection, innermost last, each    *)
(*               named by the address of its xi_section                    *)
(*   error       the std::runtime_error thrown by Error, or NoError        *)
(***************************************************************************)
NoError == [label |-> "", line |-> 0]

WrongDepthLabel   == "Section with wrong depth."
DuplicateSecLabel == "Duplicate section name on the same level."
NoAssignLabel     == "no '=' found"
DuplicateKeyLabel == "duplicated key found"

\* Parser::Error: throws, carrying the label and mLineNumber.
Error(P, xi_label) ==
    [P EXCEPT !.error = [label |-> xi_label, line |-> P.mLineNumber]]

\* A null Section* was dereferenced: from here on the behaviour of the
\* program is undefined, and the parser stands for every outcome.
NullDereferenced == "null pointer dereferenced"

Undefined(P) ==
    [P EXCEPT !.error = [label |-> NullDereferenced, line |-> P.mLineNumber]]

NewParser ==
    [ mRoot       |-> (RootAddr :> DefaultSection),
      frames      |-> << RootAddr >>,
      mLineNumber |-> 0,
      mConfigLine |-> << >>,
      error       |-> NoError ]

(***************************************************************************)
(* ParseSection, the section header branch.                                *)
(***************************************************************************)
\* Faulty variant: the line goes to the outermost call, ParseSection(mRoot).
OutermostSection(frames) == frames[1]

\* xi_section of the call that reads the line: the innermost one, since a
\* caller waits in ParseSection(*lp) until the stream has ended.
InnermostSection(frames) == frames[Len(frames)]

\* Faulty variant: rejects every header that is deeper than xi_section.
WrongDepthNoChild(depth, secDepth) == depth > secDepth

\* depth > xi_section.mDepth + 1
WrongDepth(depth, secDepth) == depth > secDepth + 1

\* Faulty variant: the ancestor walk starts at xi_section itself.
WalkStartSelf(heap, xi) == xi

\* lp = xi_section.mParent
WalkStart(heap, xi) == heap[xi].mParent

\* Faulty variant: the walk takes no step beyond the parent.
AncestorStepsNone(secDepth, depth) == 0

\* n = xi_section.mDepth - depth
AncestorSteps(secDepth, depth) == secDepth - depth

\* Faulty variant: the loop runs while i <= n, one step too far.
RECURSIVE WalkUpOneMore(_, _, _)
WalkUpOneMore(heap, lp, n) ==
    IF n < 0 THEN lp
    ELSE IF lp = nullptr THEN nullptr
    ELSE WalkUpOneMore(heap, heap[lp].mParent, n - 1)

\* for (i = 0; i < n; ++i) lp = lp->mParent.  The walk yields nullptr when
\* it has to read the mParent of a null lp.
RECURSIVE WalkUp(_, _, _)
WalkUp(heap, lp, n) ==
    IF n <= 0 THEN lp
    ELSE IF lp = nullptr THEN nullptr
    ELSE WalkUp(heap, heap[lp].mParent, n - 1)

\* The section the new header is filed under: xi_section itself when the
\* header is one level deeper, else the ancestor the walk stops at.
TargetParent(heap, xi, depth) ==
    IF heap[xi].mDepth = depth - 1
    THEN xi
    ELSE WalkUp(heap, WalkStart(heap, xi),
                AncestorSteps(heap[xi].mDepth, depth))

\* Faulty variant: never reports a duplicate.
NeverDuplicate(sec) == FALSE

\* lp->mDepth != 0
IsDuplicate(sec) == sec.mDepth # 0

\* mParent->mOrderedSections.push_back(mParent->mSections.find(sectionName))
PushBackSection(ordered, name) == Append(ordered, name)

\* The header branch for the trimmed line P.mConfigLine, in the call of
\* ParseSection on top of P.frames.  On success the recursive call
\* ParseSection(*lp) becomes the innermost frame.
SectionLine(P) ==
    LET depth       == ParseLineDepth(P.mConfigLine)
        sectionName == ParseLineName(P.mConfigLine)
        xi          == InnermostSection(P.frames)
    IN  IF WrongDepth(depth, P.mRoot[xi].mDepth)
        THEN Error(P, WrongDepthLabel)
        ELSE
          LET mParent == TargetParent(P.mRoot, xi, depth)
              lp      == ChildAddr(mParent, sectionName)
              heap1   == MapSubscript(P.mRoot, mParent, sectionName)
          IN  IF mParent = nullptr
              THEN Undefined(P)
              ELSE IF IsDuplicate(heap1[lp])
              THEN Error([P EXCEPT !.mRoot = heap1], DuplicateSecLabel)
              ELSE
                LET heap2 == IF heap1[lp].mParent = nullptr
                             THEN [heap1 EXCEPT ![lp].mDepth  = depth,
                                                ![lp].mParent = mParent]
                             ELSE heap1
                    heap3 == [heap2 EXCEPT ![mParent].mOrderedSections =
                                             PushBackSection(@, sectionName)]
                IN  [P EXCEPT !.mRoot = heap3, !.frames = Append(@, lp)]

(***************************************************************************)
(* ParseSection, the key/value branch.                                     *)
(***************************************************************************)
\* Faulty variant: splits the line at its last '='.
FindAssignLast(line) == FindLast(line, "=")

\* n = mConfigLine.find('=')
FindAssign(line) == Find(line, "=")


\* v = ParseValue(TrimString(mConfigLine.substr(n + 1, length - n - 1)))
ValueOf(line, n) == ParseValue(TrimString(Substr(line, n + 1, Len(line) - n - 1)))

\* TrimString(mConfigLine.substr(0, n))
KeyOf(line, n) == TrimString(Substr(line, 0, n))

\* Faulty variant: overwrites the value of a key that is present and
\* reports the insertion as done.
InsertOverwrite(values, key, v) ==
    [map |-> (key :> v) @@ values, second |-> TRUE]

\* mValues.insert(make_pair(key, v)): the map and whether it inserted; a
\* key that is present keeps its value.
Insert(values, key, v) ==
    IF key \in DOMAIN values
    THEN [map |-> values, second |-> FALSE]
    ELSE [map |-> (key :> v) @@ values, second |-> TRUE]

\* Faulty variant: the key is not appended to the ordered list.
PushBackValueLost(ordered, key) == ordered

\* xi_section.mOrderedValues.push_back(res.first)
PushBackValue(ordered, key) == Append(ordered, key)

KeyValueLine(P) ==
    LET line == P.mConfigLine
        xi   == InnermostSection(P.frames)
        n    == FindAssign(line)
    IN  IF n = npos
        THEN Error(P, NoAssignLabel)
        ELSE
          LET v    == ValueOf(line, n)
              key  == KeyOf(line, n)
              res  == Insert(P.mRoot[xi].mValues, key, v)
              heap == [P.mRoot EXCEPT ![xi].mValues = res.map]
          IN  IF ~res.second
              THEN Error([P EXCEPT !.mRoot = heap], DuplicateKeyLabel)
              ELSE [P EXCEPT !.mRoot =
                       [heap EXCEPT ![xi].mOrderedValues = PushBackValue(@, key)]]

(***************************************************************************)
(* ParseSection, one iteration of the loop for a line std::getline read.   *)
(***************************************************************************)
\* Faulty variant: only '#' starts a comment line.
IsCommentHashOnly(raw) == Len(raw) > 0 /\ raw[1] = "#"

\* mConfigLine[0] == '#' || mConfigLine[0] == ';', on the line as read
\* (operator[] of an empty string yields '\0').
IsComment(raw) == Len(raw) > 0 /\ raw[1] \in {"#", ";"}

\* Faulty variant: the lines skipped as comments are not counted.
LineNumberSkippingComments(n, raw) == IF IsComment(raw) THEN n ELSE n + 1

\* ++mLineNumber
NextLineNumber(n, raw) == n + 1

IsEmptyLine(raw)    == ~IsComment(raw) /\ TrimString(raw) = << >>
IsSectionLine(raw)  == ~IsComment(raw) /\ ~IsEmptyLine(raw) /\ TrimString(raw)[1] = "["
IsKeyValueLine(raw) == ~IsComment(raw) /\ ~IsEmptyLine(raw) /\ TrimString(raw)[1] # "["

ProcessLine(P, raw) ==
    LET P1 == [P EXCEPT !.mLineNumber = NextLineNumber(@, raw),
                        !.mConfigLine = raw]
        P2 == [P1 EXCEPT !.mConfigLine = TrimString(raw)]
    IN  IF IsComment(raw) THEN P1
        ELSE IF P2.mConfigLine = << >> THEN P2
        ELSE IF P2.mConfigLine[1] = "[" THEN SectionLine(P2)
        ELSE KeyValueLine(P2)

\* mConfigLine after the std::getline that finds the stream at its end.
\* When the last line ended with a newline (eol), the call passes its sentry
\* and erases the string before it meets the end; when it did not, the call
\* that read the last line has set eofbit and this one fails at its sentry
\* and leaves the string.  Every later std::getline fails at its sentry.
FailedGetline(line, eol) == IF eol THEN << >> ELSE line

\* Parser(std::istream&): ParseSection(mRoot) over a whole stream.  The
\* first error ends it; at the end of the stream every call returns.
\* eol tells whether the text ended with a newline (see FailedGetline).
RECURSIVE ParseFrom(_, _, _, _)
ParseFrom(P, lines, i, eol) ==
    IF P.error # NoError THEN P
    ELSE IF i > Len(lines)
    THEN [P EXCEPT !.frames = << >>,
                   !.mConfigLine = FailedGetline(@, eol)]
    ELSE ParseFrom(ProcessLine(P, lines[i]), lines, i + 1, eol)

ParserOf(lines, eol) == ParseFrom(NewParser, lines, 1, eol)

(***************************************************************************)
(* ExportSection                                                           *)
(***************************************************************************)
Repeat(ch, n) == [i \in 1..n |-> ch]

RECURSIVE ExportValues(_, _)
ExportValues(sec, i) ==
    IF i > Len(sec.mOrderedValues) THEN << >>
    ELSE LET key == sec.mOrderedValues[i]
         IN  key \o <<"=">> \o sec.mValues[key] \o <<"\n">>
             \o ExportValues(sec, i + 1)

RECURSIVE ExportSection(_, _, _)
RECURSIVE ExportChildren(_, _, _)
ExportChildren(heap, addr, i) ==
    IF i > Len(heap[addr].mOrderedSections) THEN << >>
    ELSE LET name == heap[addr].mOrderedSections[i]
         IN  ExportSection(heap, ChildAddr(addr, name), name)
             \o ExportChildren(heap, addr, i + 1)

ExportSection(heap, addr, xi_section_name) ==
    LET sec   == heap[addr]
        named == xi_section_name # << >>
    IN  (IF named THEN <<"\n">> ELSE << >>)
        \o Repeat("[", sec.mDepth)
        \o xi_section_name
        \o Repeat("]", sec.mDepth)
        \o (IF named THEN <<"\n">> ELSE << >>)
        \o ExportValues(sec, 1)
        \o ExportChildren(heap, addr, 1)

\* assert((*it)->second.mDepth == xi_section.mDepth + 1), for every child
\* the traversal from addr visits.
RECURSIVE ExportAssertsHold(_, _)
ExportAssertsHold(heap, addr) ==
    \A i \in 1..Len(heap[addr].mOrderedSections) :
        LET child == ChildAddr(addr, heap[addr].mOrderedSections[i])
        IN  /\ heap[child].mDepth = heap[addr].mDepth + 1
            /\ ExportAssertsHold(heap, child)

\* std::getline over a text: the lines between '\n', and a last line
\* without '\n' when it is not empty.
RECURSIVE GetLinesFrom(_, _, _)
GetLinesFrom(text, i, cur) ==
    IF i > Len(text) THEN (IF cur = << >> THEN << >> ELSE << cur >>)
    ELSE IF text[i] = "\n" THEN << cur >> \o GetLinesFrom(text, i + 1, << >>)
    ELSE GetLinesFrom(text, i + 1, Append(cur, text[i]))

GetLines(text) == GetLinesFrom(text, 1, << >>)

\* The last line of the text ends with a newline.
EndsWithNewline(text) == text # << >> /\ text[Len(text)] = "\n"

(***************************************************************************)
(* The input: the lines std::getline can deliver.                          *)
(***************************************************************************)
SectionNames == { <<"a">>, <<"b">> }

HeaderLine(d, name) == Repeat("[", d) \o name \o Repeat("]", d)

\* [a], [b], [[a]], [[b]], ...
HeaderLines == { HeaderLine(d, n) : d \in 1..MaxDepth, n \in SectionNames }

\* A header with surrounding blanks and one with the empty name: " [a] "
\* and "[]".
OddHeaderLines == { <<" ", "[", "a", "]", " ">>, <<"[", "]">> }

KeyValueLines ==
    { <<"a", "=", "1">>,                                   \* a=1
      <<" ", "a", " ", "=", " ", "2", " ">>,               \*  a = 2 
      <<"b", "=", "1", " ", "#", " ", "n", "o", "t", "e">>, \* b=1 # note
      <<"b", "=", "1", ";", "x", " ", "#", "y">>,          \* b=1;x #y
      <<"a", "=", "b", "=", "1">>,                         \* a=b=1
      <<" ", "#", "a", "=", "1">>                          \*  #a=1
    }

\* "# c", ";[a]=1" and " # c"
CommentLines ==
    { <<"#", " ", "c">>, <<";", "[", "a", "]", "=", "1">>,
      <<" ", "#", " ", "c">> }

BlankLines == { << >>, <<" ", " ">> }

NoAssignLines == { <<"n", "o", "v", "a", "l", "u", "e">> }

LineSet == HeaderLines \cup OddHeaderLines \cup KeyValueLines
           \cup CommentLines \cup BlankLines \cup NoAssignLines

(***************************************************************************)
(* State.                                                                  *)
(***************************************************************************)
VARIABLES
    mRoot,        \* Parser::mRoot and every section under it, by address
    frames,       \* the active calls of ParseSection, innermost last
    mLineNumber,  \* Parser::mLineNumber
    mConfigLine,  \* Parser::mConfigLine
    error,        \* the exception that left the constructor, or NoError
    stream,       \* the lines std::getline has delivered so far, as read
    pc,           \* "parsing", "returning", "done", "failed" or, behind a
                  \* null dereference, "undefined"
    out,          \* the text the last ExportSection wrote
    arg,          \* the argument of the last lookup or conversion called
    ret           \* what that call returned, or how it ended

vars == << mRoot, frames, mLineNumber, mConfigLine, error, stream, pc, out,
          arg, ret >>

\* No lookup or conversion has been called yet.
NoCall == [ op |-> "none" ]
NoResult == [ kind |-> "none" ]

\* The parser as the record the line handler works on.
Parser ==
    [ mRoot       |-> mRoot,
      frames      |-> frames,
      mLineNumber |-> mLineNumber,
      mConfigLine |-> mConfigLine,
      error       |-> error ]

\* Parser(const char*) when the file cannot be opened: it throws, with the
\* file name and no line number, before ParseSection is called.
FailedToOpenLabel == "failed to open file: "

\* Parser(std::istream&), or Parser(const char*) with the file open,
\* before its call of ParseSection(mRoot); or Parser(const char*) after it
\* failed to open the file.
Init ==
    /\ mRoot       = NewParser.mRoot
    /\ mLineNumber = NewParser.mLineNumber
    /\ mConfigLine = NewParser.mConfigLine
    /\ stream      = << >>
    /\ out         = << >>
    /\ arg         = NoCall
    /\ ret         = NoResult
    /\ \/ /\ frames = NewParser.frames
          /\ error  = NewParser.error
          /\ pc     = "parsing"
       \/ /\ frames = << >>
          /\ error  = [ label |-> FailedToOpenLabel, line |-> 0 ]
          /\ pc     = "failed"

\* std::getline delivers a line while the stream has one.
CanRead == pc = "parsing" /\ Len(stream) < MaxLines

\* One iteration of the while loop of the innermost ParseSection for the
\* line raw: the handler runs, and an error leaves the constructor.
Iterate(raw) ==
    \E Q \in { ProcessLine(Parser, raw) } :
        /\ stream'      = Append(stream, raw)
        /\ mRoot'       = Q.mRoot
        /\ frames'      = Q.frames
        /\ mLineNumber' = Q.mLineNumber
        /\ mConfigLine' = Q.mConfigLine
        /\ error'       = Q.error
        /\ pc'          = IF Q.error = NoError THEN "parsing"
                          ELSE IF Q.error.label = NullDereferenced
                          THEN "undefined"
                          ELSE "failed"
        /\ UNCHANGED << out, arg, ret >>

CommentInput  == { raw \in LineSet : IsComment(raw) }
EmptyInput    == { raw \in LineSet : IsEmptyLine(raw) }
SectionInput  == { raw \in LineSet : IsSectionLine(raw) }
KeyValueInput == { raw \in LineSet : IsKeyValueLine(raw) }

\* std::getline read a line that starts with '#' or ';'.
ReadComment == CanRead /\ \E raw \in CommentInput : Iterate(raw)

\* std::getline read a line that is empty once trimmed.
ReadEmpty == CanRead /\ \E raw \in EmptyInput : Iterate(raw)

\* std::getline read a line that starts with '[' once trimmed.
ReadSection == CanRead /\ \E raw \in SectionInput : Iterate(raw)

\* std::getline read any other line.
ReadKeyValue == CanRead /\ \E raw \in KeyValueInput : Iterate(raw)

\* Faulty variant: the caller goes on reading after the call it made has
\* returned.
EndOfStreamResumes ==
    /\ pc = "parsing"
    /\ frames' = SubSeq(frames, 1, Len(frames) - 1)
    /\ pc'     = IF Len(frames) = 1 THEN "done" ELSE "parsing"
    /\ \E eol \in BOOLEAN : mConfigLine' = FailedGetline(mConfigLine, eol)
    /\ UNCHANGED << mRoot, mLineNumber, error, stream, out, arg, ret >>

\* std::getline fails at the end of the stream: the innermost ParseSection
\* returns.  The text ended with a newline or without one.
EndOfStream ==
    /\ pc = "parsing"
    /\ frames' = SubSeq(frames, 1, Len(frames) - 1)
    /\ pc'     = IF Len(frames) = 1 THEN "done" ELSE "returning"
    /\ \E eol \in BOOLEAN : mConfigLine' = FailedGetline(mConfigLine, eol)
    /\ UNCHANGED << mRoot, mLineNumber, error, stream, out, arg, ret >>

\* Back in a caller, behind ParseSection(*lp): std::getline fails again on
\* the ended stream and this ParseSection returns as well.
ReturnToCaller ==
    /\ pc = "returning"
    /\ frames' = SubSeq(frames, 1, Len(frames) - 1)
    /\ pc'     = IF Len(frames) = 1 THEN "done" ELSE "returning"
    /\ UNCHANGED << mRoot, mLineNumber, mConfigLine, error, stream, out,
                    arg, ret >>

\* ExportSection(xio_stream) on the parsed tree, into an empty stream.  It
\* writes the text when its assertion holds for every child it visits
\* (otherwise the program aborts inside it and nothing follows) and leaves
\* the parser as it is.
Export ==
    /\ pc = "done"
    /\ ExportAssertsHold(mRoot, RootAddr)
    /\ out' = ExportSection(mRoot, RootAddr, << >>)
    /\ arg' = [ op |-> "ExportSection" ]
    /\ ret' = NoResult
    /\ UNCHANGED << mRoot, frames, mLineNumber, mConfigLine, error, stream,
                    pc >>

Next ==
    \/ ReadComment
    \/ ReadEmpty
    \/ ReadSection
    \/ ReadKeyValue
    \/ EndOfStream
    \/ ReturnToCaller
    \/ Export

Spec == Init /\ [][Next]_vars

(***************************************************************************)
(* Vocabulary of the properties.                                           *)
(***************************************************************************)
Last(seq)  == seq[Len(seq)]
Front(seq) == SubSeq(seq, 1, Len(seq) - 1)

ToSet(seq)       == { seq[i] : i \in 1..Len(seq) }
NoDuplicates(seq) == \A i, j \in 1..Len(seq) : seq[i] = seq[j] => i = j

Parsed == pc = "done"

\* ExportSection was the last call: out is the text of the tree as it is.
Exported == pc = "done" /\ arg = [ op |-> "ExportSection" ]

\* The section that owns the section at a non-root address.
Owner(addr) == Front(addr)

\* Depth and name of the header lines of the input: the number of leading
\* '[' and the text between them and as many closing characters.
HeaderDepth == [raw \in SectionInput |-> ParseLineDepth(TrimString(raw))]
HeaderName  == [raw \in SectionInput |-> ParseLineName(TrimString(raw))]

\* The section current after a line, read off the input alone: a header
\* of depth d opens the section of its name under the section at depth
\* d - 1 on the path to the section current before it; no other line
\* moves the current section.
NextCursor(prev, raw) ==
    IF raw \in SectionInput
    THEN Append(SubSeq(prev, 1, HeaderDepth[raw] - 1), HeaderName[raw])
    ELSE prev

\* Cursors(lines)[k]: the section current after the first k lines of an
\* accepted input.
RECURSIVE CursorsFrom(_, _, _)
CursorsFrom(lines, k, prev) ==
    IF k > Len(lines) THEN << >>
    ELSE << NextCursor(prev, lines[k]) >>
         \o CursorsFrom(lines, k + 1, NextCursor(prev, lines[k]))

Cursors(lines) == CursorsFrom(lines, 1, RootAddr)

CursorAfter(lines) ==
    IF lines = << >> THEN RootAddr ELSE Cursors(lines)[Len(lines)]

\* 1-based position of the first '=' of a line, 0 when there is none.
FirstAssign(line) ==
    IF \E i \in 1..Len(line) : line[i] = "="
    THEN CHOOSE i \in 1..Len(line) :
            line[i] = "=" /\ \A j \in 1..(i - 1) : line[j] # "="
    ELSE 0

\* Key of a key/value line: the text before its first '=', trimmed; and
\* the text after its first '='.
LineKey ==
    [raw \in KeyValueInput |->
        LET line == TrimString(raw)
        IN  TrimString(SubSeq(line, 1, FirstAssign(line) - 1))]

LineRest ==
    [raw \in KeyValueInput |->
        LET line == TrimString(raw)
        IN  SubSeq(line, FirstAssign(line) + 1, Len(line))]

\* The keys the key/value lines of the input give the section at addr, and
\* the names its header lines give its sections, in input order; cs is
\* Cursors(lines).
RECURSIVE KeysInOrder(_, _, _, _)
KeysInOrder(lines, cs, addr, k) ==
    IF k > Len(lines) THEN << >>
    ELSE (IF lines[k] \in KeyValueInput /\ cs[k] = addr
          THEN << LineKey[lines[k]] >> ELSE << >>)
         \o KeysInOrder(lines, cs, addr, k + 1)

RECURSIVE NamesInOrder(_, _, _, _)
NamesInOrder(lines, cs, addr, k) ==
    IF k > Len(lines) THEN << >>
    ELSE (IF /\ lines[k] \in SectionInput
             /\ cs[k] # RootAddr
             /\ Owner(cs[k]) = addr
          THEN << Last(cs[k]) >> ELSE << >>)
         \o NamesInOrder(lines, cs, addr, k + 1)

\* A line was read in this step: the stream delivered one more line.
LineRead == stream' # stream

HasAssign(raw) == \E i \in 1..Len(raw) : raw[i] = "="

NoOuterBlank(str) ==
    str # << >> => (str[1] \notin toTrim /\ str[Len(str)] \notin toTrim)

\* The text before the earliest '#' or ';' of a text, whichever comes first.
StripComment(str) ==
    IF \E i \in 1..Len(str) : str[i] \in {"#", ";"}
    THEN SubSeq(str, 1, (CHOOSE i \in 1..Len(str) :
                            /\ str[i] \in {"#", ";"}
                            /\ \A j \in 1..(i - 1) : str[j] \notin {"#", ";"}) - 1)
    ELSE str

\* The section a header of depth d names when cur is the current section:
\* the section of that name under the ancestor of cur at depth d - 1.
NamedSection(cur, raw) ==
    Append(SubSeq(cur, 1, HeaderDepth[raw] - 1), HeaderName[raw])

\* The rule a line breaks when it is read with cur current in heap: the
\* label of its error, "" when it breaks none.
Violation(heap, cur, raw) ==
    IF raw \in CommentInput \cup EmptyInput THEN ""
    ELSE IF raw \in SectionInput
         THEN IF HeaderDepth[raw] > heap[cur].mDepth + 1 THEN WrongDepthLabel
              ELSE IF NamedSection(cur, raw) \in DOMAIN heap
                   THEN DuplicateSecLabel
                   ELSE ""
    ELSE IF ~HasAssign(raw) THEN NoAssignLabel
    ELSE IF LineKey[raw] \in DOMAIN heap[cur].mValues THEN DuplicateKeyLabel
    ELSE ""

(***************************************************************************)
(* C1  Round trip.  Parsing the text ExportSection wrote for a parsed      *)
(* tree succeeds and yields the same tree: the same sections at the same   *)
(* addresses with the same depths and parents, the same keys and values    *)
(* and the same two orders in every section.                               *)
(* The code does not keep this: see C1_RoundTrip's counterexample.         *)
(***************************************************************************)
Reparsed == ParserOf(GetLines(out), EndsWithNewline(out))

C1_RoundTrip ==
    Exported =>
        /\ Reparsed.error = NoError
        /\ Reparsed.mRoot = mRoot

(***************************************************************************)
(* C2  Depth invariant.  After a successful parse the root has depth 0     *)
(* and no parent; every other section is owned by an existing section, has *)
(* that section as its parent and a depth one more than that section's;    *)
(* and the assertion of ExportSection holds for every child it visits.     *)
(***************************************************************************)
C2_DepthInvariant ==
    Parsed =>
        /\ mRoot[RootAddr].mDepth = 0
        /\ mRoot[RootAddr].mParent = nullptr
        /\ \A a \in DOMAIN mRoot \ {RootAddr} :
              /\ Owner(a) \in DOMAIN mRoot
              /\ Last(a) \in mRoot[Owner(a)].mSections
              /\ mRoot[a].mParent = Owner(a)
              /\ mRoot[a].mDepth = mRoot[Owner(a)].mDepth + 1
        /\ ExportAssertsHold(mRoot, RootAddr)

\* A parse that went down to depth 2 and then opened a second section
\* under the root, by the ancestor walk.
C2_Witness ==
    /\ pc = "done"
    /\ Len(mRoot[RootAddr].mOrderedSections) >= 2
    /\ \E a \in DOMAIN mRoot :
          /\ Len(a) = 2
          /\ mRoot[a].mDepth = 2
          /\ a[1] = mRoot[RootAddr].mOrderedSections[1]

(***************************************************************************)
(* C3  Order-permutation invariant.  After a successful parse, in every    *)
(* section the ordered value list has no duplicates, names exactly the     *)
(* keys of the value map and lists them in the order of the key/value      *)
(* lines that gave them to the section; the ordered section list has no    *)
(* duplicates, names exactly the sections of the section map and lists     *)
(* them in the order of the header lines that created them.                *)
(***************************************************************************)
C3_OrderPermutation ==
    pc = "done" =>
        LET cs == Cursors(stream)
        IN  \A a \in DOMAIN mRoot :
              /\ NoDuplicates(mRoot[a].mOrderedValues)
              /\ ToSet(mRoot[a].mOrderedValues) = DOMAIN mRoot[a].mValues
              /\ Len(mRoot[a].mOrderedValues) = Cardinality(DOMAIN mRoot[a].mValues)
              /\ mRoot[a].mOrderedValues = KeysInOrder(stream, cs, a, 1)
              /\ NoDuplicates(mRoot[a].mOrderedSections)
              /\ ToSet(mRoot[a].mOrderedSections) = mRoot[a].mSections
              /\ Len(mRoot[a].mOrderedSections) = Cardinality(mRoot[a].mSections)
              /\ mRoot[a].mOrderedSections = NamesInOrder(stream, cs, a, 1)

\* A parsed tree with two keys in one section and two sections under one
\* section.
C3_Witness ==
    /\ pc = "done"
    /\ \E a \in DOMAIN mRoot : Len(mRoot[a].mOrderedValues) >= 2
    /\ \E a \in DOMAIN mRoot : Len(mRoot[a].mOrderedSections) >= 2

(***************************************************************************)
(* C4  Section too deep.  A header line whose depth exceeds the depth of   *)
(* the current section by more than one fails the parse with the           *)
(* wrong-depth error, carrying its line, and leaves the tree as it was; a  *)
(* header line of any smaller depth does not raise that error.             *)
(***************************************************************************)
C4_SectionTooDeep ==
    [][ (LineRead /\ Last(stream') \in SectionInput) =>
            LET raw == Last(stream')
                cur == CursorAfter(stream)
            IN  IF HeaderDepth[raw] > mRoot[cur].mDepth + 1
                THEN /\ error' = [label |-> WrongDepthLabel,
                                  line  |-> Len(stream')]
                     /\ pc' = "failed"
                     /\ mRoot' = mRoot
                ELSE error'.label # WrongDepthLabel
      ]_vars

\* A depth-2 header as the first line of the input failed.
C4_Witness ==
    /\ pc = "failed"
    /\ error.label = WrongDepthLabel
    /\ Len(stream) = 1
    /\ HeaderDepth[stream[1]] = 2

(***************************************************************************)
(* C5  Duplicate section name.  A header line of an allowed depth fails    *)
(* the parse with the duplicate-section error exactly when the section it  *)
(* names already exists under its target parent, whatever was opened since *)
(* that section was created; otherwise it is accepted and creates the      *)
(* section, also when a section of the same name exists under another      *)
(* parent.                                                                 *)
(***************************************************************************)
C5_DuplicateSection ==
    [][ (LineRead /\ Last(stream') \in SectionInput) =>
            LET raw  == Last(stream')
                cur  == CursorAfter(stream)
                addr == NamedSection(cur, raw)
            IN  HeaderDepth[raw] <= mRoot[cur].mDepth + 1 =>
                    IF addr \in DOMAIN mRoot
                    THEN /\ error' = [label |-> DuplicateSecLabel,
                                      line  |-> Len(stream')]
                         /\ pc' = "failed"
                    ELSE /\ error' = NoError
                         /\ pc' = "parsing"
                         /\ addr \in DOMAIN mRoot'
      ]_vars

\* A header failed as a duplicate of a section that is not the current
\* one, in a tree that holds one name under two parents.
C5_Witness ==
    /\ pc = "failed"
    /\ error.label = DuplicateSecLabel
    /\ NamedSection(CursorAfter(Front(stream)), Last(stream))
          # CursorAfter(Front(stream))
    /\ \E a, b \in DOMAIN mRoot \ {RootAddr} : a # b /\ Last(a) = Last(b)

(***************************************************************************)
(* C6  Duplicate key.  A key/value line whose trimmed key is already a key *)
(* of the current section fails the parse with the duplicate-key error and *)
(* leaves the values and the ordered value list of that section as they    *)
(* were; a key the current section does not hold is stored, whatever other *)
(* sections hold.                                                          *)
(***************************************************************************)
C6_DuplicateKey ==
    [][ (LineRead /\ Last(stream') \in KeyValueInput /\ HasAssign(Last(stream'))) =>
            LET raw == Last(stream')
                cur == CursorAfter(stream)
                key == LineKey[raw]
            IN  IF key \in DOMAIN mRoot[cur].mValues
                THEN /\ error' = [label |-> DuplicateKeyLabel,
                                  line  |-> Len(stream')]
                     /\ pc' = "failed"
                     /\ mRoot'[cur].mValues = mRoot[cur].mValues
                     /\ mRoot'[cur].mOrderedValues = mRoot[cur].mOrderedValues
                ELSE /\ error' = NoError
                     /\ key \in DOMAIN mRoot'[cur].mValues
      ]_vars

\* A line failed as a duplicate key; it carried another value than the one
\* stored, and another section holds the same key.
C6_Witness ==
    /\ pc = "failed"
    /\ error.label = DuplicateKeyLabel
    /\ LET cur == CursorAfter(stream)
           key == LineKey[Last(stream)]
       IN  /\ mRoot[cur].mValues[key] # TrimString(LineRest[Last(stream)])
           /\ Len(mRoot[cur].mOrderedValues) = 1
           /\ \E a \in DOMAIN mRoot \ {cur} : key \in DOMAIN mRoot[a].mValues

(***************************************************************************)
(* C7  Missing assignment.  A line that does not start with '#' or ';',    *)
(* is not empty once trimmed and does not then start with '[' fails the    *)
(* parse with the missing-assignment error when it holds no '='; when it   *)
(* holds one it does not raise that error and is split at its first '=':   *)
(* the value stored under the text before it is taken from all the text    *)
(* after it.                                                               *)
(***************************************************************************)
C7_MissingAssignment ==
    [][ (LineRead /\ Last(stream') \in KeyValueInput) =>
            LET raw == Last(stream')
                cur == CursorAfter(stream)
            IN  IF ~HasAssign(raw)
                THEN /\ error' = [label |-> NoAssignLabel,
                                  line  |-> Len(stream')]
                     /\ pc' = "failed"
                ELSE /\ error'.label # NoAssignLabel
                     /\ error' = NoError =>
                           /\ LineKey[raw] \in DOMAIN mRoot'[cur].mValues
                           /\ mRoot'[cur].mValues[LineKey[raw]]
                                 = ParseValue(TrimString(LineRest[raw]))
      ]_vars

\* A line without '=' failed after a line with two '=' was stored with the
\* second one in its value.
C7_Witness ==
    /\ pc = "failed"
    /\ error.label = NoAssignLabel
    /\ ~HasAssign(Last(stream))
    /\ \E k \in DOMAIN mRoot[RootAddr].mValues :
          HasAssign(mRoot[RootAddr].mValues[k])

(***************************************************************************)
(* C8  Key/value normalization.  After a key/value line is accepted, the   *)
(* current section holds its key without leading or trailing whitespace,   *)
(* and the value stored is the text after the first '=' with the inline    *)
(* comment removed and without leading or trailing whitespace.             *)
(* The code does not keep this: see C8_Normalized's counterexample.        *)
(***************************************************************************)
C8_Normalized ==
    (pc = "parsing" /\ stream # << >> /\ error = NoError
        /\ Last(stream) \in KeyValueInput) =>
        LET raw == Last(stream)
            cur == CursorAfter(stream)
            key == LineKey[raw]
        IN  /\ key \in DOMAIN mRoot[cur].mValues
            /\ NoOuterBlank(key)
            /\ NoOuterBlank(mRoot[cur].mValues[key])
            /\ mRoot[cur].mValues[key] = TrimString(StripComment(LineRest[raw]))

(***************************************************************************)
(* C9  First error and its line number.  Lines are read only while no      *)
(* error was raised; a line raises an error exactly when it breaks a rule  *)
(* in the state the lines before it left, and then the error is the one of *)
(* that rule and carries the 1-based position of the line in the input,    *)
(* comments and blank lines counted; once an error was raised no line is   *)
(* read and the tree and the error stay as they are.                       *)
(***************************************************************************)
C9_FirstError ==
    [][ /\ LineRead =>
            /\ error = NoError
            /\ stream' = Append(stream, Last(stream'))
            /\ error'.label =
                  Violation(mRoot, CursorAfter(stream), Last(stream'))
            /\ error' # NoError =>
                  (error'.line = Len(stream') /\ pc' = "failed")
            /\ error' = NoError => pc' = "parsing"
        /\ error # NoError =>
            (stream' = stream /\ mRoot' = mRoot /\ error' = error)
      ]_vars

\* The third line failed, after a comment line and a blank line.
C9_Witness ==
    /\ pc = "failed"
    /\ error.line = 3
    /\ Len(stream) = 3
    /\ stream[1] \in CommentInput
    /\ stream[2] \in EmptyInput

(***************************************************************************)
(* C10  Cursor attachment.  An accepted key/value line adds its key to the *)
(* section opened by the most recent header line before it (the root when  *)
(* there is none) and changes no other section; an accepted header one     *)
(* level deeper than the current section creates its section as a child of *)
(* the current section, with that section as parent, and changes no other  *)
(* section.                                                                *)
(***************************************************************************)
C10_CursorAttachment ==
    [][ (LineRead /\ error' = NoError) =>
            LET raw == Last(stream')
                cur == CursorAfter(stream)
            IN  /\ raw \in KeyValueInput =>
                    /\ DOMAIN mRoot' = DOMAIN mRoot
                    /\ LineKey[raw] \in DOMAIN mRoot'[cur].mValues
                    /\ LineKey[raw] \notin DOMAIN mRoot[cur].mValues
                    /\ mRoot'[cur].mOrderedValues =
                          Append(mRoot[cur].mOrderedValues, LineKey[raw])
                    /\ \A a \in DOMAIN mRoot \ {cur} : mRoot'[a] = mRoot[a]
                /\ (raw \in SectionInput
                      /\ HeaderDepth[raw] = mRoot[cur].mDepth + 1) =>
                    LET child == Append(cur, HeaderName[raw])
                    IN  /\ child \notin DOMAIN mRoot
                        /\ DOMAIN mRoot' = DOMAIN mRoot \cup {child}
                        /\ mRoot'[child].mParent = cur
                        /\ mRoot'[cur].mSections =
                              mRoot[cur].mSections \cup {HeaderName[raw]}
                        /\ mRoot'[cur].mOrderedSections =
                              Append(mRoot[cur].mOrderedSections, HeaderName[raw])
                        /\ \A a \in DOMAIN mRoot \ {cur} : mRoot'[a] = mRoot[a]
      ]_vars

\* Two depth-1 headers, a depth-2 header and a key/value line: the key is
\* in the section of the third header, which lies under the second.
C10_Witness ==
    /\ pc = "parsing"
    /\ Len(stream) = 4
    /\ error = NoError
    /\ stream[1] \in SectionInput /\ HeaderDepth[stream[1]] = 1
    /\ stream[2] \in SectionInput /\ HeaderDepth[stream[2]] = 1
    /\ stream[3] \in SectionInput /\ HeaderDepth[stream[3]] = 2
    /\ stream[4] \in KeyValueInput
    /\ LET d == << HeaderName[stream[2]], HeaderName[stream[3]] >>
       IN  /\ d \in DOMAIN mRoot
           /\ mRoot[d].mParent = << HeaderName[stream[2]] >>
           /\ LineKey[stream[4]] \in DOMAIN mRoot[d].mValues
           /\ << HeaderName[stream[1]], HeaderName[stream[3]] >> \notin DOMAIN mRoot

(***************************************************************************)
(* C11  Export format.  The text ExportSection writes for a parsed tree is *)
(* the pre-order listing of the tree: for the root its key=value lines in  *)
(* value order and then its children in child order; for every other       *)
(* section, whatever its name, a blank line, depth '[', the name, depth    *)
(* ']' and a newline, then its key=value lines and its children likewise.  *)
(* The code does not keep this: see C11_ExportFormat's counterexample.     *)
(***************************************************************************)
RECURSIVE FormatValues(_, _)
FormatValues(sec, i) ==
    IF i > Len(sec.mOrderedValues) THEN << >>
    ELSE sec.mOrderedValues[i] \o <<"=">>
         \o sec.mValues[sec.mOrderedValues[i]] \o <<"\n">>
         \o FormatValues(sec, i + 1)

RECURSIVE FormatSection(_, _)
RECURSIVE FormatChildren(_, _, _)
FormatChildren(heap, addr, i) ==
    IF i > Len(heap[addr].mOrderedSections) THEN << >>
    ELSE FormatSection(heap, Append(addr, heap[addr].mOrderedSections[i]))
         \o FormatChildren(heap, addr, i + 1)

FormatSection(heap, addr) ==
    (IF addr = RootAddr THEN << >>
     ELSE <<"\n">> \o [i \in 1..Len(addr) |-> "["] \o Last(addr)
          \o [i \in 1..Len(addr) |-> "]"] \o <<"\n">>)
    \o FormatValues(heap[addr], 1)
    \o FormatChildren(heap, addr, 1)

C11_ExportFormat ==
    Exported => out = FormatSection(mRoot, RootAddr)

(***************************************************************************)
(* The parser in use: lookups with Section::operator[] and operator(),     *)
(* Clear and ExportSection on a Parser whose constructor has returned.     *)
(***************************************************************************)
\* How many map elements the lookups may default-construct.
MaxPlaceholders == 2

\* The configuration text of the test program, line by line (the blanks
\* that pad each line to the same width are left out).
TestInput ==
    << <<"#"," ","d","e","f","i","n","i","n","g"," ","a"," ","c","o","n","f","i","g","u","r","a","t","i","o","n"," ","f","i","l","e">>,
       <<"a","-","b","*","2","=","1"," ","#"," ","a","n"," ","o","r","i","g","i","n","a","l"," ","n","a","m","e","d"," ","k","e","y","!">>,
       <<"b","=","1">>,
       <<>>,
       <<"#"," ","s","e","c","t","i","o","n"," ","'","e","'">>,
       <<"[","e","]">>,
       <<"e","a","=","1"," ",";"," ","m","i","d","d","l","e"," ","l","i","n","e"," ","c","o","m","m","e","n","t">>,
       <<"e","b","=","1">>,
       <<>>,
       <<"#"," ","s","e","c","t","i","o","n"," ","'","c","'">>,
       <<"[","c","]">>,
       <<"c","a","=","2">>,
       <<"c","b","=","2"," ","#"," ","a","n","o","t","h","e","r"," ","m","i","d","d","l","e"," ","l","i","n","e"," ","c","o","m","m","e","n","t">>,
       <<>>,
       <<"#"," ","n","e","s","t","e","d"," ","s","e","c","t","i","o","n"," ","i","n"," ","'","e","'"," ","c","a","l","l","e","d"," ","'","d","'">>,
       <<"[","[","d","]","]">>,
       <<"d","a","=","3",".","0">>,
       <<"d","b","=","{","3",","," ","4",","," ","5","}"," "," ",";"," ","<","-"," ","l","o","o","k"," ","a","n"," ","i","n","t","e","g","e","r"," ","v","e","c","t","o","r",".",".",".">>,
       <<>>,
       <<"#"," ","s","e","c","t","i","o","n"," ","'","e","'">>,
       <<"[","A","]">>,
       <<"A","a","=","t","r","u","e">>,
       <<"A","-","b","=","f","o","o","-","b","a","r"," ","#"," ","a"," ","k","e","y"," ","w","i","t","h"," ","a","n"," ","u","n","u","s","u","a","l"," ","c","h","a","r","a","c","t","e","r"," ","i","n","s","i","d","e"," ","i","t">> >>

\* A root key, a section with a key and a section nested in it with the
\* same key.
NestedInput ==
    << <<"x","=","1">>,
       <<"[","c","]">>,
       <<"d","a","=","v">>,
       <<"[","[","d","]","]">>,
       <<"d","a","=","w">> >>

\* The texts the parsers in use were constructed from: their lines,
\* and whether the last line ends with a newline (that of the test program
\* does).
UseInputs ==
    { [ lines |-> TestInput,   eol |-> TRUE ],
      [ lines |-> NestedInput, eol |-> FALSE ],
      [ lines |-> << >>,       eol |-> FALSE ] }

\* The keys and the section names the lookups ask for.
LookupKeys  == { <<"b">>, <<"d","a">>, <<"z","z">> }
LookupNames == { <<"c">>, <<"d">>, <<"z","z">> }

\* Parser(std::istream&) has returned for one of the texts.
UseInit ==
    \E text \in UseInputs :
        \E Q \in { ParserOf(text.lines, text.eol) } :
            /\ Q.error     = NoError
            /\ mRoot       = Q.mRoot
            /\ frames      = << >>
            /\ mLineNumber = Q.mLineNumber
            /\ mConfigLine = Q.mConfigLine
            /\ error       = NoError
            /\ stream      = text.lines
            /\ pc          = "done"
            /\ out         = << >>
            /\ arg         = NoCall
            /\ ret         = NoResult

\* mValues[xi_key] of the section at addr: the heap after
\* std::map::operator[] inserted an empty string when the key was absent.
ValueSubscript(heap, addr, key) ==
    IF key \in DOMAIN heap[addr].mValues
    THEN heap
    ELSE [heap EXCEPT ![addr].mValues = (key :> << >>) @@ @]

\* The map elements no line of the input stands for: keys that are in no
\* ordered list and sections that were default-constructed.
PlaceholderKeys(heap) ==
    { p \in (DOMAIN heap) \X LookupKeys :
        /\ p[2] \in DOMAIN heap[p[1]].mValues
        /\ \A i \in DOMAIN heap[p[1]].mOrderedValues :
              heap[p[1]].mOrderedValues[i] # p[2] }

PlaceholderSections(heap) ==
    { a \in DOMAIN heap : a # RootAddr /\ heap[a].mParent = nullptr }

CanInsert ==
    Cardinality(PlaceholderKeys(mRoot)) + Cardinality(PlaceholderSections(mRoot))
        < MaxPlaceholders

\* Section::operator[](xi_key) on the section at a: return mValues[xi_key].
LookupValueAt(a, key) ==
    /\ key \in DOMAIN mRoot[a].mValues \/ CanInsert
    /\ arg'   = [ op |-> "operator[]", at |-> a, key |-> key ]
    /\ mRoot' = ValueSubscript(mRoot, a, key)
    /\ ret'   = [ kind |-> "string", val |-> mRoot'[a].mValues[key] ]
    /\ UNCHANGED << frames, mLineNumber, mConfigLine, error, stream, pc, out >>

LookupValue ==
    /\ pc = "done"
    /\ \E a \in DOMAIN mRoot, key \in LookupKeys : LookupValueAt(a, key)

\* Section::operator()(xi_section) on the section at a: return
\* mSections[xi_section].
LookupSectionAt(a, name) ==
    /\ name \in mRoot[a].mSections \/ CanInsert
    /\ arg'   = [ op |-> "operator()", at |-> a, key |-> name ]
    /\ mRoot' = MapSubscript(mRoot, a, name)
    /\ ret'   = [ kind |-> "section", val |-> ChildAddr(a, name) ]
    /\ UNCHANGED << frames, mLineNumber, mConfigLine, error, stream, pc, out >>

LookupSection ==
    /\ pc = "done"
    /\ \E a \in DOMAIN mRoot, name \in LookupNames : LookupSectionAt(a, name)

\* Faulty variant: mSections.clear() is left out.
ClearRootKeepsSections(root) ==
    [root EXCEPT !.mValues = << >>, !.mOrderedValues = << >>,
                 !.mOrderedSections = << >>]

\* The four clear() calls of Clear on mRoot.
ClearRoot(root) ==
    [root EXCEPT !.mValues = << >>, !.mOrderedValues = << >>,
                 !.mSections = {}, !.mOrderedSections = << >>]

\* The heap once the root is new_root: a section lives as long as the
\* mSections map that owns it holds it.
Surviving(heap, new_root) ==
    [ a \in { b \in DOMAIN heap :
                b = RootAddr \/ b[1] \in new_root.mSections }
        |-> IF a = RootAddr THEN new_root ELSE heap[a] ]

\* Parser::Clear().
Clear ==
    /\ pc = "done"
    /\ mConfigLine' = << >>
    /\ mLineNumber' = 0
    /\ mRoot'       = Surviving(mRoot, ClearRoot(mRoot[RootAddr]))
    /\ arg'         = [ op |-> "Clear" ]
    /\ ret'         = NoResult
    /\ UNCHANGED << frames, error, stream, pc, out >>

UseNext ==
    \/ LookupValue
    \/ LookupSection
    \/ Clear
    \/ Export

SpecUse == UseInit /\ [][UseNext]_vars

(***************************************************************************)
(* C12  A lookup finds or reports.  operator[] on a section returns the    *)
(* value stored under the key, operator() the child of that name; a lookup *)
(* of a key or name the section does not have reports not-found and leaves *)
(* the section's maps and order lists as they were.  The code does not     *)
(* keep this: see C12_LookupDoesNotInsert's counterexample.                *)
(***************************************************************************)
C12_LookupDoesNotInsert ==
    [][ /\ \A a \in DOMAIN mRoot, key \in LookupKeys :
            LookupValueAt(a, key) =>
                /\ mRoot' = mRoot
                /\ IF key \in DOMAIN mRoot[a].mValues
                   THEN ret' = [ kind |-> "string",
                                 val  |-> mRoot[a].mValues[key] ]
                   ELSE ret'.kind = "not_found"
        /\ \A a \in DOMAIN mRoot, name \in LookupNames :
            LookupSectionAt(a, name) =>
                /\ mRoot' = mRoot
                /\ IF name \in mRoot[a].mSections
                   THEN ret' = [ kind |-> "section",
                                 val  |-> Append(a, name) ]
                   ELSE ret'.kind = "not_found" ]_vars

(***************************************************************************)
(* C13  Clear.  After Clear the root has no values, no child sections and  *)
(* empty order lists, no other section is left, the root has depth 0 and   *)
(* no parent, the line counter is zero, and an export writes nothing.      *)
(***************************************************************************)
C13_Clear ==
    [][ Clear =>
          /\ DOMAIN mRoot' = { RootAddr }
          /\ DOMAIN mRoot'[RootAddr].mValues = {}
          /\ mRoot'[RootAddr].mSections = {}
          /\ mRoot'[RootAddr].mOrderedValues = << >>
          /\ mRoot'[RootAddr].mOrderedSections = << >>
          /\ mRoot'[RootAddr].mDepth = 0
          /\ mRoot'[RootAddr].mParent = nullptr
          /\ mLineNumber' = 0
          /\ ExportSection(mRoot', RootAddr, << >>) = << >> ]_vars

\* Clear was called on a parser whose text gave the root values and
\* sections, and it was the last call.
C13_Witness ==
    /\ pc = "done"
    /\ arg = [ op |-> "Clear" ]
    /\ stream = TestInput
    /\ Cardinality(DOMAIN ParserOf(stream, TRUE).mRoot) = 5
    /\ DOMAIN mRoot = { RootAddr }
    /\ mLineNumber = 0

(***************************************************************************)
(* The conversions of a value text: Tokenize, CleanArrayString and GetAs   *)
(* for bool, int and their vectors, and ParseValue, as free functions      *)
(* applied to a text.                                                      *)
(***************************************************************************)
\* Most elements of an array literal among the texts.
MaxElems == 3

\* isspace in the "C" locale: the blank, '\t', '\n', '\v' (the character
\* 0x0B, which TLA+ has no escape for and which stands in its string as it
\* is), '\f' and '\r'.  For a byte from 0x80 on, handed over as a negative
\* int, the table of the C library answers no.
isspace == {" ", "\t", "\n", "", "\f", "\r"}

\* str.erase(remove_if(str.begin(), str.end(), isspace), str.end())
RemoveSpace(str) == SelectSeq(str, LAMBDA ch : ch \notin isspace)

\* The characters a char holds as a value from 0 to 127: the null
\* character, the control characters and the printable characters.  Every
\* other character of a text stands for bytes from 0x80 on, which a char
\* holds as negative values.  (The grave accent, 0x60, is missing: the
\* syntax of TLA+ admits it in no string, so no text here holds it.)
Ascii ==
    { "NUL", "\t", "\n", "", "\f", "\r",
      "", "", "", "", "", "", "", "", "", "", "", "",
      "", "", "", "", "", "", "", "", "", "", "", "",
      "", "", "",
      " ", "!", "\"", "#", "$", "%", "&", "'", "(", ")", "*", "+",
      ",", "-", ".", "/", "0", "1", "2", "3", "4", "5", "6", "7",
      "8", "9", ":", ";", "<", "=", ">", "?", "@", "A", "B", "C",
      "D", "E", "F", "G", "H", "I", "J", "K", "L", "M", "N", "O",
      "P", "Q", "R", "S", "T", "U", "V", "W", "X", "Y", "Z", "[",
      "\\", "]", "^", "_", "a", "b", "c", "d", "e", "f", "g",
      "h", "i", "j", "k", "l", "m", "n", "o", "p", "q", "r", "s",
      "t", "u", "v", "w", "x", "y", "z", "{", "|", "}", "~" }

\* map[(unsigned)ch] for the char ch, where char is signed: a negative
\* char converts to a value just below 2^32, an index outside the 256
\* elements of map, and the access is undefined.  (Where char is unsigned
\* the index is 128 to 255 and the access is the defined one.)
OutsideMap(ch) == ch \notin Ascii

\* The signals that kill the program when the address of such an access
\* lies on no page of the process.
Signals == { "SIGSEGV", "SIGBUS" }

Killed == { [ kind |-> "signal", val |-> sig ] : sig \in Signals }

\* What the test !map[(unsigned)ch] of the loop can read.  Inside map: a
\* delimiter's element is '\1', every other is 0.  Outside map the read is
\* undefined: the program is killed, or the read returns whatever byte lies
\* at the address, zero or not (with an address space of 32 bits the
\* address is one on the stack just below map); where char is unsigned it
\* returns the element.
MapReads(ch, xi_delimiters) ==
    IF OutsideMap(ch) THEN { "zero", "nonzero", "killed" }
    ELSE IF ch \in xi_delimiters THEN { "nonzero" }
    ELSE { "zero" }

\* The loop of Tokenize: a character whose element of map reads zero goes
\* to the last token, any other starts a new token unless the last one is
\* empty.  The ways the loop can end: with the tokens, or killed.
RECURSIVE TokenizeFrom(_, _, _, _)
TokenizeFrom(xi_string, xi_delimiters, i, xo_tokens) ==
    IF i > Len(xi_string) THEN { [ kind |-> "tokens", val |-> xo_tokens ] }
    ELSE UNION {
        IF read = "killed" THEN Killed
        ELSE IF read = "zero"
        THEN TokenizeFrom(xi_string, xi_delimiters, i + 1,
                 [xo_tokens EXCEPT ![Len(xo_tokens)] = Append(@, xi_string[i])])
        ELSE IF Len(xo_tokens[Len(xo_tokens)]) > 0
        THEN TokenizeFrom(xi_string, xi_delimiters, i + 1,
                 Append(xo_tokens, << >>))
        ELSE TokenizeFrom(xi_string, xi_delimiters, i + 1, xo_tokens) :
          read \in MapReads(xi_string[i], xi_delimiters) }

\* while (xo_tokens.size() && !xo_tokens.back().size()) xo_tokens.pop_back()
RECURSIVE PopEmpty(_)
PopEmpty(xo_tokens) ==
    IF Len(xo_tokens) > 0 /\ Len(xo_tokens[Len(xo_tokens)]) = 0
    THEN PopEmpty(SubSeq(xo_tokens, 1, Len(xo_tokens) - 1))
    ELSE xo_tokens

\* Tokenize: the ways it can end.  The first loop writes '\1' to map for
\* every delimiter; for a byte from 0x80 on the write goes outside map and
\* is undefined: the program is killed, or the write is done and the
\* program goes on.  Then the loop over the string runs and the empty
\* tokens at the end are dropped.
Tokenize(xi_string, xi_delimiters) ==
    (IF \E ch \in xi_delimiters : OutsideMap(ch) THEN Killed ELSE {})
    \cup { IF t.kind = "tokens" THEN [ t EXCEPT !.val = PopEmpty(@) ] ELSE t :
              t \in TokenizeFrom(xi_string, xi_delimiters, 1, << << >> >>) }

\* How a conversion ends when it returns no value.
Aborted         == [ kind |-> "abort" ]
OutOfRange      == [ kind |-> "out_of_range" ]
InvalidArgument == [ kind |-> "invalid_argument" ]

\* s[i] of a std::string, 0-based: s[s.size()] is the terminating null.
CharAt(s, i) == IF i < Len(s) THEN s[i + 1] ELSE "NUL"

\* The condition CleanArrayString asserts.
ValidityCheck(xi_string) ==
    \/ Len(xi_string) # 0
    \/ CharAt(xi_string, 0) = "{"
    \/ CharAt(xi_string, Len(xi_string)) = "}"

\* Faulty variant: the whole string is kept, its first character too.
WholeString(xi_string) == xi_string

\* xi_string.substr(1, xi_string.size() - 1)
WithoutFirst(xi_string) == Substr(xi_string, 1, Len(xi_string) - 1)

\* CleanArrayString behind its assertion: substr throws std::out_of_range
\* when its position 1 lies behind the end of the string; otherwise it ends
\* as Tokenize does.
CleanedTokens(xi_string) ==
    IF 1 > Len(xi_string) THEN { OutOfRange }
    ELSE Tokenize(RemoveSpace(WithoutFirst(xi_string)), {","})

\* CleanArrayString: the ways it can end.  A build with assertions aborts
\* when the asserted condition is false; a build with NDEBUG goes on.
CleanArrayString(xi_string) ==
    (IF ValidityCheck(xi_string) THEN {} ELSE { Aborted })
    \cup CleanedTokens(xi_string)

\* The value of a decimal digit.
Digit == [ ch \in {"0", "1", "2", "3", "4", "5", "6", "7", "8", "9"} |->
             CASE ch = "0" -> 0 [] ch = "1" -> 1 [] ch = "2" -> 2
               [] ch = "3" -> 3 [] ch = "4" -> 4 [] ch = "5" -> 5
               [] ch = "6" -> 6 [] ch = "7" -> 7 [] ch = "8" -> 8
               [] ch = "9" -> 9 ]

\* The run of digits of str from index i on, accumulated as a number <= 0
\* (so that INT_MIN has a value), or NoInt when the number leaves the range
\* of int, whose last digit is 7 for a positive number and 8 for a negative
\* one.
NoInt == 1

RECURSIVE StoiDigits(_, _, _, _)
StoiDigits(str, i, acc, last) ==
    IF i > Len(str) \/ str[i] \notin DOMAIN Digit THEN acc
    ELSE IF acc < -214748364 \/ (acc = -214748364 /\ Digit[str[i]] > last)
    THEN NoInt
    ELSE StoiDigits(str, i + 1, acc * 10 - Digit[str[i]], last)

RECURSIVE SkipSpace(_, _)
SkipSpace(str, i) ==
    IF i <= Len(str) /\ str[i] \in isspace THEN SkipSpace(str, i + 1) ELSE i

\* std::stoi(str): leading white space, an optional sign and a run of
\* digits; std::invalid_argument when there is no digit, std::out_of_range
\* when the number is no int; what follows the digits is ignored.
stoi(str) ==
    LET b        == SkipSpace(str, 1)
        negative == b <= Len(str) /\ str[b] = "-"
        signed   == b <= Len(str) /\ str[b] \in {"+", "-"}
        d        == IF signed THEN b + 1 ELSE b
    IN  IF d > Len(str) \/ str[d] \notin DOMAIN Digit THEN InvalidArgument
        ELSE LET acc == StoiDigits(str, d, 0, IF negative THEN 8 ELSE 7)
             IN  IF acc = NoInt THEN OutOfRange
                 ELSE [ kind |-> "int", val |-> IF negative THEN acc ELSE 0 - acc ]

\* GetAs<int>
GetAs_int(xi_string) == stoi(RemoveSpace(xi_string))

\* Faulty variant: every text but "false" is true.
GetAs_bool_NotFalse(xi_string) ==
    [ kind |-> "bool", val |-> RemoveSpace(xi_string) # <<"f","a","l","s","e">> ]

\* GetAs<bool>
GetAs_bool(xi_string) ==
    [ kind |-> "bool", val |-> RemoveSpace(xi_string) = <<"t","r","u","e">> ]

\* The loop of GetAs<std::vector<int>>: the first token std::stoi rejects
\* ends the conversion with its exception.
RECURSIVE StoiEach(_, _, _)
StoiEach(vec, i, xo_vector) ==
    IF i > Len(vec) THEN [ kind |-> "vector<int>", val |-> xo_vector ]
    ELSE LET r == stoi(vec[i])
         IN  IF r.kind # "int" THEN r
             ELSE StoiEach(vec, i + 1, Append(xo_vector, r.val))

\* GetAs<std::vector<int>>: the ways it can end.
GetAs_vector_int(xi_string) ==
    { IF c.kind = "tokens" THEN StoiEach(c.val, 1, << >>) ELSE c :
        c \in CleanArrayString(xi_string) }

\* GetAs<std::vector<bool>>: the ways it can end.
GetAs_vector_bool(xi_string) ==
    { IF c.kind = "tokens"
      THEN [ kind |-> "vector<bool>",
             val  |-> [ i \in 1..Len(c.val) |-> c.val[i] = <<"t","r","u","e">> ] ]
      ELSE c :
        c \in CleanArrayString(xi_string) }

\* The texts handed to the conversions: array literals of up to MaxElems
\* elements, with and without a blank behind the comma, whole or with a
\* brace missing, and scalar texts.
CastTokens == { <<"t","r","u","e">>,
                <<"f","a","l","s","e">>,
                <<"T","r","u","e">>,
                <<"3">>,
                <<"4">>,
                <<"5">> }

Separators == { <<",">>, <<",", " ">> }

RECURSIVE Join(_, _, _)
Join(tokens, sep, i) ==
    IF i > Len(tokens) THEN << >>
    ELSE (IF i = 1 THEN << >> ELSE sep) \o tokens[i] \o Join(tokens, sep, i + 1)

ArrayBodies ==
    { Join(tokens, sep, 1) :
        tokens \in UNION { [1..n -> CastTokens] : n \in 1..MaxElems },
        sep \in Separators }

ArrayTexts ==
    { open \o body \o close :
        body \in ArrayBodies, open \in { <<"{">>, << >> },
        close \in { <<"}">>, << >> } }

ScalarTexts ==
    { <<>>,
      <<"t","r","u","e">>,
      <<" ","t","r","u","e"," ">>,
      <<"t"," ","r","u","e">>,
      <<"T","r","u","e">>,
      <<"f","a","l","s","e">>,
      <<"t","r","u","e","f","a","l","s","e">>,
      <<"1","2">>,
      <<" ","1"," ","2">>,
      <<"-","7">>,
      <<"+","7">>,
      <<"1","2","a","b","c">>,
      <<"a","b","c">>,
      <<"-">>,
      <<"2","1","4","7","4","8","3","6","4","7">>,
      <<"2","1","4","7","4","8","3","6","4","8">>,
      <<"-","2","1","4","7","4","8","3","6","4","8">>,
      <<"-","2","1","4","7","4","8","3","6","4","9">>,
      <<"9","9","9","9","9","9","9","9","9","9","9">>,
      <<"1",";","x"," ","#","y">>,
      <<"1"," ","#"," ","n","o","t","e">>,
      <<"b",";","c">>,
      <<"a","#","b",";","c">>,
      <<"p","l","a","i","n">>,
      <<"{">>,
      <<"}">>,
      <<"{","}">>,
      <<"{","3",",",",","4","}">>,
      <<"{",",","3","}">>,
      <<"{","3",",","}">>,
      <<"{","3",",","x",",","4","}">> }

\* Texts with a vertical tab (0x0B) and texts with a byte from 0x80 on.
ByteTexts ==
    { <<"t","r","","u","e">>,
      <<"","1","2">>,
      <<"{","3",",","","4","}">>,
      <<"t","r","é","u","e">>,
      <<"1","é","2">>,
      <<"é">>,
      <<"{","3",","," ","é","}">>,
      <<"{","t","r","u","e",",","é","}">>,
      <<"{","","}">> }

ValueTexts == ArrayTexts \cup ScalarTexts \cup ByteTexts

\* A text is at hand and no conversion has been called.  The conversions
\* are free functions; the parser beside them is one of an empty text.
CastInit ==
    \E xi_string \in ValueTexts :
        \E Q \in { ParserOf(<< >>, TRUE) } :
            /\ mRoot       = Q.mRoot
            /\ frames      = << >>
            /\ mLineNumber = Q.mLineNumber
            /\ mConfigLine = Q.mConfigLine
            /\ error       = Q.error
            /\ stream      = << >>
            /\ pc          = "done"
            /\ out         = << >>
            /\ arg         = [ op |-> "none", text |-> xi_string ]
            /\ ret         = NoResult

\* One conversion of the text at hand ends with the outcome r.
Convert(op, r) ==
    /\ arg' = [ arg EXCEPT !.op = op ]
    /\ ret' = r
    /\ UNCHANGED << mRoot, frames, mLineNumber, mConfigLine, error, stream,
                    pc, out >>

CastBool ==
    /\ pc = "done"
    /\ Convert("GetAs<bool>", GetAs_bool(arg.text))

CastInt ==
    /\ pc = "done"
    /\ Convert("GetAs<int>", GetAs_int(arg.text))

CastIntVector ==
    /\ pc = "done"
    /\ \E r \in GetAs_vector_int(arg.text) : Convert("GetAs<vector<int>>", r)

CastBoolVector ==
    /\ pc = "done"
    /\ \E r \in GetAs_vector_bool(arg.text) : Convert("GetAs<vector<bool>>", r)

CallParseValue ==
    /\ pc = "done"
    /\ Convert("ParseValue",
               [ kind |-> "string", val |-> ParseValue(arg.text) ])

CastNext ==
    \/ CastBool
    \/ CastInt
    \/ CastIntVector
    \/ CastBoolVector
    \/ CallParseValue

SpecCast == CastInit /\ [][CastNext]_vars

(***************************************************************************)
(* Vocabulary of the conversion properties.                                *)
(***************************************************************************)
TrueText == <<"t", "r", "u", "e">>

\* A text without its white space, character by character.
RECURSIVE Unspaced(_)
Unspaced(str) ==
    IF str = << >> THEN << >>
    ELSE IF str[1] \in {" ", "\t", "\n", "", "\f", "\r"}
    THEN Unspaced(Tail(str))
    ELSE << str[1] >> \o Unspaced(Tail(str))

\* The pieces of a text between its commas, empty pieces included.
RECURSIVE SplitOnComma(_)
SplitOnComma(str) ==
    IF \A i \in 1..Len(str) : str[i] # ","
    THEN << str >>
    ELSE LET c == CHOOSE i \in 1..Len(str) :
                     str[i] = "," /\ \A j \in 1..(i - 1) : str[j] # ","
         IN  << SubSeq(str, 1, c - 1) >>
             \o SplitOnComma(SubSeq(str, c + 1, Len(str)))

BraceWrapped(str) ==
    Len(str) >= 2 /\ str[1] = "{" /\ str[Len(str)] = "}"

\* The tokens t1, ..., tn of the array literal {t1, ..., tn}.
LiteralTokens(str) == SplitOnComma(SubSeq(str, 2, Len(str) - 1))

\* A brace-wrapped literal of n >= 1 tokens, none of them blank.
ArrayLiteral(str) ==
    /\ BraceWrapped(str)
    /\ \A i \in 1..Len(LiteralTokens(str)) :
          Unspaced(LiteralTokens(str)[i]) # << >>

CastCalled(op) == "text" \in DOMAIN arg /\ arg.op = op

(***************************************************************************)
(* C14  Array cast is element-wise.  The cast of an array literal          *)
(* {t1, ..., tn} to a vector has n elements, and element i is the scalar   *)
(* cast of ti without its white space: for bool always, for int whenever   *)
(* every token has a scalar cast.  The code does not keep this for bool:   *)
(* see C14_ElementWise's counterexample.                                   *)
(***************************************************************************)
C14_ElementWise ==
    /\ (CastCalled("GetAs<vector<bool>>") /\ ArrayLiteral(arg.text)) =>
          LET t == LiteralTokens(arg.text)
          IN  ret = [ kind |-> "vector<bool>",
                      val  |-> [ i \in 1..Len(t) |->
                                   GetAs_bool(Unspaced(t[i])).val ] ]
    /\ (CastCalled("GetAs<vector<int>>") /\ ArrayLiteral(arg.text)) =>
          LET t == LiteralTokens(arg.text)
          IN  (\A i \in 1..Len(t) : GetAs_int(Unspaced(t[i])).kind = "int") =>
                  ret = [ kind |-> "vector<int>",
                          val  |-> [ i \in 1..Len(t) |->
                                       GetAs_int(Unspaced(t[i])).val ] ]

(***************************************************************************)
(* C16  Boolean cast.  GetAs<bool> returns a bool and raises no error; it  *)
(* is true exactly when the text without its white space is "true".        *)
(***************************************************************************)
C16_BoolCast ==
    CastCalled("GetAs<bool>") =>
        ret = [ kind |-> "bool", val |-> Unspaced(arg.text) = TrueText ]

\* "true" between blanks was cast, to true.
C16_Witness ==
    /\ CastCalled("GetAs<bool>")
    /\ arg.text = <<" ", "t", "r", "u", "e", " ">>
    /\ ret = [ kind |-> "bool", val |-> TRUE ]

(***************************************************************************)
(* C17  Malformed array.  The cast of a text to a vector ends with the     *)
(* malformed-array failure, the failed assertion of CleanArrayString, and  *)
(* with no vector, whenever the text is empty, does not begin with '{' or  *)
(* does not end with '}'.  The code does not keep this: see                *)
(* C17_MalformedArray's counterexample.                                    *)
(***************************************************************************)
C17_MalformedArray ==
    ( /\ CastCalled("GetAs<vector<int>>") \/ CastCalled("GetAs<vector<bool>>")
      /\ \/ arg.text = << >>
         \/ arg.text[1] # "{"
         \/ arg.text[Len(arg.text)] # "}" )
    => ret = Aborted

(***************************************************************************)
(* C19  Comment stripping cuts at the earliest introducer.  ParseValue     *)
(* returns the text before the first '#' or ';', whichever comes first,    *)
(* and the whole text when it holds neither, so what it returns holds      *)
(* neither.  The code does not keep this: see C19_EarliestIntroducer's     *)
(* counterexample.                                                         *)
(***************************************************************************)
C19_EarliestIntroducer ==
    CastCalled("ParseValue") =>
        /\ ret = [ kind |-> "string", val |-> StripComment(arg.text) ]
        /\ \A i \in 1..Len(ret.val) : ret.val[i] \notin {"#", ";"}

(***************************************************************************)
(* C15  Full-line comment.  As stated: a line whose first character that   *)
(* is no space or tab is '#' or ';' is ignored entirely; it leaves the     *)
(* tree and the current section as they are and raises no error.  The code *)
(* looks at the first character of the line as read, so this is violated   *)
(* by a comment behind leading blanks.                                     *)
(***************************************************************************)
RECURSIVE FirstNonBlank(_)
FirstNonBlank(raw) ==
    IF raw = << >> THEN ""
    ELSE IF raw[1] \in {" ", "\t"} THEN FirstNonBlank(Tail(raw))
    ELSE raw[1]

C15_IndentedComment ==
    [][ (LineRead /\ FirstNonBlank(Last(stream')) \in {"#", ";"}) =>
            /\ mRoot'  = mRoot
            /\ frames' = frames
            /\ error'  = NoError
            /\ pc'     = "parsing"
      ]_vars

(***************************************************************************)
(* C15, amended.  A line whose first character, with nothing before it, is *)
(* '#' or ';' is ignored entirely, whatever text follows: it leaves the    *)
(* tree and the current section as they are and raises no error.           *)
(***************************************************************************)
C15_FullLineComment ==
    [][ (LineRead /\ Last(stream') # << >>
                  /\ Last(stream')[1] \in {"#", ";"}) =>
            /\ mRoot'  = mRoot
            /\ frames' = frames
            /\ error'  = NoError
            /\ pc'     = "parsing"
      ]_vars

\* ";[a]=1" was read with a section below the root current: the tree is
\* the tree of the lines before it and the section is still current.
C15_Witness ==
    /\ pc = "parsing"
    /\ error = NoError
    /\ Len(stream) >= 2
    /\ Last(stream) = <<";", "[", "a", "]", "=", "1">>
    /\ Len(frames) > 1
    /\ Last(frames) = CursorAfter(Front(stream))
    /\ mRoot = ParserOf(Front(stream), TRUE).mRoot

(***************************************************************************)
(* C18  Dedent target.  An accepted header of depth d, 1 <= d <= depth of  *)
(* the current section, creates its section as a child of the ancestor of  *)
(* the current section reached over depth(current) - d + 1 parent links,   *)
(* whose depth is d - 1: the parent of the current section when            *)
(* d = depth(current), the root when d = 1.  The new section gets that     *)
(* ancestor as parent and becomes the current section; no other section    *)
(* changes.                                                                *)
(***************************************************************************)
RECURSIVE Ancestor(_, _, _)
Ancestor(heap, a, links) ==
    IF links = 0 THEN a ELSE Ancestor(heap, heap[a].mParent, links - 1)

C18_DedentTarget ==
    [][ ( /\ LineRead
          /\ error' = NoError
          /\ Last(stream') \in SectionInput
          /\ HeaderDepth[Last(stream')] <= mRoot[CursorAfter(stream)].mDepth ) =>
            LET raw == Last(stream')
                cur == CursorAfter(stream)
                d   == HeaderDepth[raw]
                anc == Ancestor(mRoot, cur, mRoot[cur].mDepth - d + 1)
                new == Append(anc, HeaderName[raw])
            IN  /\ anc \in DOMAIN mRoot
                /\ mRoot[anc].mDepth = d - 1
                /\ d = mRoot[cur].mDepth => anc = mRoot[cur].mParent
                /\ d = 1 => anc = RootAddr
                /\ new \notin DOMAIN mRoot
                /\ DOMAIN mRoot' = DOMAIN mRoot \cup {new}
                /\ mRoot'[new].mParent = anc
                /\ mRoot'[new].mDepth = d
                /\ mRoot'[anc].mSections =
                      mRoot[anc].mSections \cup {HeaderName[raw]}
                /\ mRoot'[anc].mOrderedSections =
                      Append(mRoot[anc].mOrderedSections, HeaderName[raw])
                /\ \A a \in DOMAIN mRoot \ {anc} : mRoot'[a] = mRoot[a]
                /\ Last(frames') = new
      ]_vars

\* Headers of depth 1, 2 and 3 and then a header of depth 1: its section
\* lies under the root, three parent links above the section that was
\* current.
C18_Witness ==
    /\ pc = "parsing"
    /\ error = NoError
    /\ Len(stream) = 4
    /\ \A k \in 1..4 : stream[k] \in SectionInput
    /\ HeaderDepth[stream[1]] = 1
    /\ HeaderDepth[stream[2]] = 2
    /\ HeaderDepth[stream[3]] = 3
    /\ HeaderDepth[stream[4]] = 1
    /\ << HeaderName[stream[4]] >> \in DOMAIN mRoot
    /\ mRoot[<< HeaderName[stream[4]] >>].mParent = RootAddr
    /\ Last(frames) = << HeaderName[stream[4]] >>

(***************************************************************************)
(* C20  Single linear pass.  The recursive ParseSection does what one loop *)
(* over the lines with one current-section cursor does: a line is read     *)
(* only while the parse is running and is appended to the lines read, it   *)
(* is processed against the section the most recent header opened, which   *)
(* is the section of the innermost call, and tree, cursor and error after  *)
(* it are those of the loop body; once a call has returned no line is read *)
(* and tree and error stay; and every step of the parse lowers a measure  *)
(* that is never negative, so the parse of an input of at most MaxLines    *)
(* lines ends.                                                             *)
(***************************************************************************)
\* The body of the loop: tree, cursor and error after the n-th line raw.
LoopBody(tree, cur, raw, n) ==
    IF Violation(tree, cur, raw) # ""
    THEN [ tree |-> tree, cursor |-> cur,
           error |-> [ line |-> n, label |-> Violation(tree, cur, raw) ] ]
    ELSE IF raw \in SectionInput
    THEN LET new    == NamedSection(cur, raw)
             parent == Front(new)
         IN  [ tree   |-> (new :> [ DefaultSection EXCEPT
                                      !.mDepth  = HeaderDepth[raw],
                                      !.mParent = parent ])
                          @@ [ tree EXCEPT
                                 ![parent].mSections = @ \cup {HeaderName[raw]},
                                 ![parent].mOrderedSections =
                                     Append(@, HeaderName[raw]) ],
               cursor |-> new,
               error  |-> NoError ]
    ELSE IF raw \in KeyValueInput
    THEN [ tree   |-> [ tree EXCEPT
                          ![cur].mValues =
                              (LineKey[raw] :> ParseValue(TrimString(LineRest[raw])))
                              @@ @,
                          ![cur].mOrderedValues = Append(@, LineKey[raw]) ],
           cursor |-> cur,
           error  |-> NoError ]
    ELSE [ tree |-> tree, cursor |-> cur, error |-> NoError ]

\* Twice the lines the input may still deliver, plus the calls that are
\* active.
Measure == 2 * (MaxLines - Len(stream)) + Len(frames)

C20_SinglePass ==
    [][ /\ LineRead =>
            /\ pc = "parsing"
            /\ stream' = Append(stream, Last(stream'))
            /\ Last(frames) = CursorAfter(stream)
            /\ LET after == LoopBody(mRoot, Last(frames), Last(stream'),
                                     Len(stream'))
               IN  /\ mRoot' = after.tree
                   /\ error' = after.error
                   /\ Last(frames') = after.cursor
        /\ pc # "parsing" =>
            (stream' = stream /\ mRoot' = mRoot /\ error' = error)
        /\ pc \in {"parsing", "returning"} =>
            (Measure' < Measure /\ Measure' >= 0)
      ]_vars

\* A header, a key/value line and a deeper header were read, the innermost
\* call has returned and its callers are returning: the tree is the tree
\* of the three lines.
C20_Witness ==
    /\ pc = "returning"
    /\ Len(stream) = 3
    /\ stream[1] \in SectionInput
    /\ stream[2] \in KeyValueInput
    /\ stream[3] \in SectionInput /\ HeaderDepth[stream[3]] = 2
    /\ Len(frames) = 2
    /\ Cardinality(DOMAIN mRoot) = 3
    /\ mRoot = ParserOf(stream, TRUE).mRoot

(***************************************************************************)
(* C21  Ancestor walk stays inside the tree.  When a header of depth d     *)
(* that passes the depth check is read with the section of depth D         *)
(* current, the walk follows D - d + 1 parent links from that section      *)
(* (none when d = D + 1): no link it follows is the root's and none is     *)
(* read through a null pointer, the section it stops at exists and has     *)
(* depth d - 1, it is the section the parser files the header under, and   *)
(* the step does not end in undefined behaviour.                           *)
(***************************************************************************)
\* The sections whose parent link is read when k links are followed from
\* a; nullptr among them when a link is read through a null pointer.
RECURSIVE LinksFollowed(_, _, _)
LinksFollowed(heap, a, k) ==
    IF k = 0 THEN {}
    ELSE IF a \notin DOMAIN heap THEN { nullptr }
    ELSE { a } \cup LinksFollowed(heap, heap[a].mParent, k - 1)

\* Where k parent links from a lead; nullptr when they leave the tree.
RECURSIVE Walked(_, _, _)
Walked(heap, a, k) ==
    IF a \notin DOMAIN heap THEN nullptr
    ELSE IF k = 0 THEN a
    ELSE Walked(heap, heap[a].mParent, k - 1)

C21_WalkInsideTree ==
    [][ ( /\ LineRead
          /\ Last(stream') \in SectionInput
          /\ HeaderDepth[Last(stream')] <= mRoot[Last(frames)].mDepth + 1 ) =>
            LET cur  == Last(frames)
                d    == HeaderDepth[Last(stream')]
                k    == mRoot[cur].mDepth - d + 1
                from == LinksFollowed(mRoot, cur, k)
                stop == Walked(mRoot, cur, k)
            IN  /\ RootAddr \notin from
                /\ nullptr \notin from
                /\ stop \in DOMAIN mRoot
                /\ mRoot[stop].mDepth = d - 1
                /\ TargetParent(mRoot, cur, d) = stop
                /\ pc' # "undefined"
                /\ error'.label # NullDereferenced
      ]_vars

\* Headers of depth 1 and 2 and then a header of depth 1 with the name of
\* the first: the walk went up two links to the root, where the name was
\* found taken.
C21_Witness ==
    /\ pc = "failed"
    /\ Len(stream) = 3
    /\ \A k \in 1..3 : stream[k] \in SectionInput
    /\ HeaderDepth[stream[1]] = 1
    /\ HeaderDepth[stream[2]] = 2
    /\ HeaderDepth[stream[3]] = 1
    /\ HeaderName[stream[3]] = HeaderName[stream[1]]
    /\ error = [ label |-> DuplicateSecLabel, line |-> 3 ]
    /\ Cardinality(DOMAIN mRoot) = 3

====
